---- MODULE Spec2Model ----
(***************************************************************************)
(* feediverse: the feed -> filter -> dedupe -> publish pipeline of         *)
(* feediverse.py (main, get_feed, update_dupes, save_state, read_state)    *)
(* as a state machine.  One behaviour is a sequence of invocations of the  *)
(* program against one configuration and one state file.                   *)
(***************************************************************************)
EXTENDS Integers, Sequences, FiniteSets, TLC

\* ------------------------------------------------------------------ bounds
MaxTime    == 3    \* instants are 0..MaxTime; 0 is the minimum instant
MaxEntries == 2    \* entries in one fetched feed document
MaxRuns    == 2    \* invocations of the program in one behaviour
MaxRecords == 53   \* update_dupes calls in the ledger specification
MaxRepeats == 1    \* of which calls that record an already recorded value
MaxText    == 501  \* characters in a rendered template

\* ------------------------------------------------------- program constants
MinInstant  == 0   \* datetime(MINYEAR, 1, 1, 0, 0, 0, 0, timezone.utc)
LedgerLimit == 50  \* the 50 of update_dupes
ImageCap    == 4   \* entry['images'][:4]
TextLimit   == 499 \* the [:499] of line 69

Urls    == {"u1", "u2"}
ImageCounts == {0, 1}              \* image URLs found in an entry's summary
Links   == {<<"a", "b">>, <<"x", "y", "z">>}   \* values of the dedupe field
DedupeFields == {"", "link"}       \* --dedupe TAG; "" is the default

FeedConfig(u, img) == [url |-> u, include_images |-> img]

\* The UTC offset the feed at a URL writes its dates in.
FeedOffset(u) == IF u = "u1" THEN 1 ELSE 0
Configs == { <<FeedConfig("u1", TRUE)>>,
             <<FeedConfig("u1", FALSE), FeedConfig("u2", TRUE)>> }

VARIABLES
    config,       \* config['feeds']
    file,         \* the state file
    clock,        \* wall clock, in instants
    runs,         \* invocations started so far
    pc,           \* "idle" (no process), "feed" (line 62), "entry" (line 67)
    exit,         \* how the last invocation ended: "none", "ok", "error"
    args,         \* parsed command line of the running invocation
    state,        \* main's state dictionary
    fi,           \* index into config['feeds'] of the feed being processed
    newest_post,  \* main's newest_post
    dupes,        \* main's dupes (the same list object as the ledger in state)
    entries,      \* what get_feed has still to yield
    last_update,  \* get_feed's last_update
    now,          \* get_feed's now
    posted,       \* history: masto.status_post calls of this invocation
    uploads,      \* history: masto.media_post calls of this invocation
    file0,        \* history: the state file when this invocation started
    fetched,      \* history: about the document fetched for the current feed
    seen,         \* history: per feed, about all documents of committed passes
    run,          \* history: the feeds begun and committed, and the failure, of this invocation
    lost,         \* history: entries posted in a pass that an exception ended,
                  \* kept by the specification SpecLost only
    ledger,       \* ledger specification: the list update_dupes works on
    recorded,     \* ledger specification: history of the values recorded
    rendered,     \* render specification: feed['template'].format(**entry)
    entry_text    \* render specification: main's entry_text

progVars   == <<config, file, clock, runs, pc, exit, args, state, fi,
                newest_post, dupes, entries, last_update, now>>
histVars   == <<posted, uploads, file0, fetched, seen, run, lost>>
ledgerVars == <<ledger, recorded>>
renderVars == <<rendered, entry_text>>
vars       == <<progVars, histVars, ledgerVars, renderVars>>

\* ---------------------------------------------------------------- datetimes
\* A timezone-aware datetime: the instant and the UTC offset it is written in.
DateTime(t, o) == [utc |-> t, off |-> o]

\* datetime.isoformat(): the wall-clock reading followed by the offset.
isoformat(d) == <<d.utc + d.off, d.off>>

\* dateutil.parser.parse of such a string.
parse(s) == DateTime(s[1] - s[2], s[2])

\* Comparison of aware datetimes is by instant.
Later(a, b) == a.utc > b.utc

\* max that keeps its first argument.
max_first(a, b) == a

\* Python's max(a, b): b only when b > a.
max(a, b) == IF Later(b, a) THEN b ELSE a

\* bool(datetime): datetime defines no __bool__/__len__, so always true.
Truthy(d) == TRUE

DefaultUpdated == DateTime(MinInstant, 0)

\* -------------------------------------------------------------- update_dupes
\* update_dupes that never trims.
update_dupes_no_trim(d, new) == Append(d, new)

\* update_dupes that trims at the wrong end.
update_dupes_drop_newest(d, new) ==
    LET trimmed == IF Len(d) > LedgerLimit THEN SubSeq(d, 1, Len(d) - 1) ELSE d
    IN  Append(trimmed, new)

update_dupes(d, new) ==
    LET trimmed == IF Len(d) > LedgerLimit THEN Tail(d) ELSE d
    IN  Append(trimmed, new)

InList(v, d) == \E k \in 1..Len(d) : d[k] = v

\* ----------------------------------------------------------- the state file
NoDate == <<0, 0>>     \* filler for a key that is not in the JSON object
EmptyLedgers == [u \in Urls |-> <<>>]

\* The file does not exist.
NoFile == [exists |-> FALSE, ukeys |-> {}, updated |-> [u \in Urls |-> NoDate],
           dupecheck |-> [kind |-> "object", object |-> EmptyLedgers, array |-> <<>>]]

\* read_state's initial dictionary: two defaultdicts with no keys.
DefaultState ==
    [ukeys |-> {}, updated |-> [u \in Urls |-> DefaultUpdated],
     dupecheck |-> [kind |-> "dict", dict |-> EmptyLedgers, list |-> <<>>]]

\* dict.update(iterable) wants every element to be a key/value pair: a string
\* of length 2 is taken as one, any other string raises ValueError.
UpdateAccepts(arr) == \A k \in 1..Len(arr) : Len(arr[k]) = 2

\* read_state does not raise on this file.
read_state_ok(f) ==
    \/ ~f.exists
    \/ f.dupecheck.kind = "object"
    \/ UpdateAccepts(f.dupecheck.array)

\* read_state's result.  A JSON array whose strings all have length 2 fills
\* the ledger dictionary with one-character keys, none of them a feed URL.
read_state(f) ==
    IF ~f.exists THEN DefaultState
    ELSE [ukeys |-> f.ukeys,
          updated |-> [u \in Urls |-> IF u \in f.ukeys THEN parse(f.updated[u])
                                      ELSE DefaultUpdated],
          dupecheck |-> [kind |-> "dict",
                         dict |-> IF f.dupecheck.kind = "object"
                                  THEN f.dupecheck.object ELSE EmptyLedgers,
                         list |-> <<>>]]

\* save_state: json.dump of the dictionary with the datetimes as strings.
save_state(st) ==
    [exists |-> TRUE,
     ukeys |-> st.ukeys,
     updated |-> [u \in Urls |-> IF u \in st.ukeys THEN isoformat(st.updated[u])
                                 ELSE NoDate],
     dupecheck |-> IF st.dupecheck.kind = "list"
                   THEN [kind |-> "array", object |-> EmptyLedgers,
                         array |-> st.dupecheck.list]
                   ELSE [kind |-> "object", object |-> st.dupecheck.dict,
                         array |-> <<>>]]

\* The watermark a state file holds for a feed (the default when it has none).
StoredWatermark(f, u) == read_state(f).updated[u]

\* ------------------------------------------------------------------ get_feed
IsoStrings(u) == {isoformat(DateTime(t, FeedOffset(u))) : t \in 1..MaxTime}
RawFields(u)  == [updated : IsoStrings(u), link : Links]

\* A feed document: feed.entries in document order; n is the position.
Doc(p) == [k \in 1..Len(p) |-> [n |-> k, updated |-> p[k].updated,
                                link |-> p[k].link]]
FeedDocs(u) ==
    UNION {{Doc(p) : p \in [1..m -> RawFields(u)]} : m \in 0..MaxEntries}

\* e.updated_parsed: the date as a UTC time tuple.
updated_parsed(e) == parse(e.updated).utc

\* list.sort(key=updated_parsed): ascending and stable.
RECURSIVE InsertByKey(_, _)
InsertByKey(e, s) ==
    IF s = <<>> THEN <<e>>
    ELSE IF updated_parsed(e) < updated_parsed(s[Len(s)])
         THEN Append(InsertByKey(e, SubSeq(s, 1, Len(s) - 1)), s[Len(s)])
         ELSE Append(s, e)

\* A sort that leaves the list in document order.
sort_none(s) == s

RECURSIVE sort(_)
sort(s) == IF s = <<>> THEN <<>>
           ELSE InsertByKey(s[Len(s)], sort(SubSeq(s, 1, Len(s) - 1)))

\* The future filter left out.
NotFuture_off(e, t) == TRUE

\* line 114: the entry is not dated after now.
NotFuture(e, t) == ~Later(parse(e.updated), t)

\* The watermark filter with >= for >.
Newer_or_equal(e, wm) == ~Later(wm, parse(e.updated))

\* line 118: the entry is dated after the watermark.
Newer(e, wm) == Later(parse(e.updated), wm)

\* get_entry, as far as main reads its result.  entry['images'] is read in
\* one place only (line 86) and is drawn there.
get_entry(e) == [n |-> e.n, link |-> e.link, updated |-> parse(e.updated)]

get_feed(doc, wm, t) ==
    LET FutureTest(e) == NotFuture(e, t)
        NewerTest(e)  == Newer(e, wm)
        past   == SelectSeq(doc, FutureTest)
        fresh  == IF Truthy(wm) THEN SelectSeq(past, NewerTest) ELSE past
        sorted == sort(fresh)
    IN  [k \in 1..Len(sorted) |-> get_entry(sorted[k])]

\* ---------------------------------------------------------------------- main
NoArgs == [dry_run |-> FALSE, dedupe_field |-> ""]
NoFetch == [max |-> MinInstant, maxPast |-> MinInstant, offered |-> FALSE]
NoSeen == [u \in Urls |-> [committed |-> FALSE, max |-> MinInstant,
                           maxPast |-> MinInstant, ledger |-> <<>>]]

\* on: whether the history is kept; ids: the entries.
NoLost == [on |-> FALSE, ids |-> {}]

\* begun, committed: the indexes of the feeds whose pass began (line 62-67)
\* and was committed (line 104-106), in that order; failure, failed: what
\* failed in the pass in progress and in which feed; entry: the number in
\* its document of the entry the loop body failed on; left: the entries that had passed the filters
\* and had not gone through the loop body when the exception ended the
\* pass, the failing one not counted.
NoRun == [begun |-> <<>>, committed |-> <<>>, failure |-> "none", failed |-> 0,
          entry |-> 0, left |-> 0]

Max2(a, b) == IF a >= b THEN a ELSE b
Min2(a, b) == IF a <= b THEN a ELSE b

\* The largest instant among the entries of doc that satisfy Keep.
MaxInstant(doc, Keep(_)) ==
    LET ts == {updated_parsed(doc[k]) : k \in {j \in 1..Len(doc) : Keep(doc[j])}}
    IN  IF ts = {} THEN MinInstant ELSE CHOOSE t \in ts : \A x \in ts : x <= t

\* The process is gone: its variables hold nothing.
ProcessGone ==
    /\ pc' = "idle"
    /\ state' = DefaultState
    /\ fi' = 0
    /\ newest_post' = DefaultUpdated
    /\ dupes' = <<>>
    /\ entries' = <<>>
    /\ last_update' = DefaultUpdated
    /\ now' = DefaultUpdated
    /\ fetched' = NoFetch

Init ==
    /\ config \in Configs
    /\ file = NoFile
    /\ clock = 1
    /\ runs = 0
    /\ pc = "idle"
    /\ exit = "none"
    /\ args = NoArgs
    /\ state = DefaultState
    /\ fi = 0
    /\ newest_post = DefaultUpdated
    /\ dupes = <<>>
    /\ entries = <<>>
    /\ last_update = DefaultUpdated
    /\ now = DefaultUpdated
    /\ posted = <<>>
    /\ uploads = <<>>
    /\ file0 = file
    /\ fetched = NoFetch
    /\ seen = NoSeen
    /\ run = NoRun
    /\ lost = NoLost
    /\ ledger = <<>>
    /\ recorded = <<>>
    /\ rendered = <<>>
    /\ entry_text = <<>>

\* Lines 40-60: the program starts, parses its arguments and loads the state.
main_start(dry, field) ==
    /\ pc = "idle"
    /\ runs < MaxRuns
    /\ read_state_ok(file)
    /\ runs' = runs + 1
    /\ args' = [dry_run |-> dry, dedupe_field |-> field]
    /\ state' = read_state(file)
    /\ pc' = "feed"
    /\ fi' = 1
    /\ posted' = <<>>
    /\ uploads' = <<>>
    /\ file0' = file
    /\ run' = NoRun
    /\ UNCHANGED <<config, file, clock, exit, newest_post, dupes, entries,
                   last_update, now, fetched, seen, lost, ledgerVars,
                   renderVars>>

\* Lines 40-53 when read_state raises (ValueError from dict.update).
main_start_error(dry, field) ==
    /\ pc = "idle"
    /\ runs < MaxRuns
    /\ ~read_state_ok(file)
    /\ runs' = runs + 1
    /\ args' = [dry_run |-> dry, dedupe_field |-> field]
    /\ exit' = "error"
    /\ posted' = <<>>
    /\ uploads' = <<>>
    /\ file0' = file
    /\ run' = NoRun
    /\ UNCHANGED <<config, file, clock, pc, state, fi, newest_post, dupes,
                   entries, last_update, now, fetched, seen, lost, ledgerVars,
                   renderVars>>

\* The stored watermark ignored.
Watermark_default(st, url) == DefaultUpdated

\* Line 63: state['updated'][feed["url"]].
Watermark(st, url) == st.updated[url]

\* Lines 62-67 and get_feed up to its sort: the next feed's watermark and
\* ledger are read, the feed is fetched, filtered and sorted.
feed_begin ==
    /\ pc = "feed"
    /\ fi <= Len(config)
    /\ state.dupecheck.kind = "dict"
    /\ LET url == config[fi].url
           wm  == Watermark(state, url)
       IN  /\ newest_post' = wm
           /\ last_update' = wm
           /\ state' = [state EXCEPT !.ukeys = @ \cup {url}]
           /\ dupes' = state.dupecheck.dict[url]
           /\ \E doc \in FeedDocs(url), t \in clock..Min2(clock + 1, MaxTime) :
                LET All(e)  == TRUE
                    Past(e) == NotFuture(e, DateTime(t, 0))
                IN  /\ clock' = t
                    /\ now' = DateTime(t, 0)
                    /\ entries' = get_feed(doc, wm, DateTime(t, 0))
                    /\ fetched' = [max |-> MaxInstant(doc, All),
                                   maxPast |-> MaxInstant(doc, Past),
                                   offered |-> MaxInstant(doc, All) > wm.utc]
    /\ pc' = "entry"
    /\ run' = [run EXCEPT !.begun = Append(@, fi)]
    /\ UNCHANGED <<config, file, runs, exit, args, fi, posted, uploads, file0,
                   seen, lost, ledgerVars, renderVars>>

\* Lines 62-67 when feedparser.parse cannot fetch or parse the feed and
\* reports it in its result (bozo), which holds no entries: get_feed yields
\* nothing.
feed_fetch_failed ==
    /\ pc = "feed"
    /\ fi <= Len(config)
    /\ state.dupecheck.kind = "dict"
    /\ LET url == config[fi].url
           wm  == Watermark(state, url)
       IN  /\ newest_post' = wm
           /\ last_update' = wm
           /\ state' = [state EXCEPT !.ukeys = @ \cup {url}]
           /\ dupes' = state.dupecheck.dict[url]
           /\ \E t \in clock..Min2(clock + 1, MaxTime) :
                /\ clock' = t
                /\ now' = DateTime(t, 0)
           /\ entries' = get_feed(<<>>, wm, DefaultUpdated)
           /\ fetched' = NoFetch
    /\ pc' = "entry"
    /\ run' = [run EXCEPT !.begun = Append(@, fi),
                          !.failure = "fetch", !.failed = fi]
    /\ UNCHANGED <<config, file, runs, exit, args, fi, posted, uploads, file0,
                   seen, lost, ledgerVars, renderVars>>

\* Line 67 when feedparser.parse raises: the exception leaves main.
feed_fetch_error ==
    /\ pc = "feed"
    /\ fi <= Len(config)
    /\ state.dupecheck.kind = "dict"
    /\ \E t \in clock..Min2(clock + 1, MaxTime) : clock' = t
    /\ run' = [run EXCEPT !.begun = Append(@, fi), !.left = 0,
                          !.failure = "fetch", !.failed = fi]
    /\ exit' = "error"
    /\ ProcessGone
    /\ UNCHANGED <<config, file, runs, args, posted, uploads, file0, seen, lost,
                   ledgerVars, renderVars>>

\* The documents that have room for one more entry.
FeedDocsBefore(u) == {d \in FeedDocs(u) : Len(d) < MaxEntries}

\* feed_parse_error as it would be if the filter dropped the entry with the
\* bad date and get_feed yielded the others.
feed_parse_skipped ==
    /\ pc = "feed"
    /\ fi <= Len(config)
    /\ state.dupecheck.kind = "dict"
    /\ LET url == config[fi].url
           wm  == Watermark(state, url)
       IN  /\ newest_post' = wm
           /\ last_update' = wm
           /\ state' = [state EXCEPT !.ukeys = @ \cup {url}]
           /\ dupes' = state.dupecheck.dict[url]
           /\ \E doc \in FeedDocsBefore(url), t \in clock..Min2(clock + 1, MaxTime) :
                /\ clock' = t
                /\ now' = DateTime(t, 0)
                /\ entries' = get_feed(doc, wm, DateTime(t, 0))
                /\ fetched' = NoFetch
                /\ run' = [run EXCEPT !.begun = Append(@, fi), !.left = 0,
                                      !.failure = "parse", !.failed = fi]
    /\ pc' = "entry"
    /\ UNCHANGED <<config, file, runs, exit, args, fi, posted, uploads, file0,
                   seen, lost, ledgerVars, renderVars>>

\* Line 67 when the document ends with an entry whose date is missing or
\* cannot be parsed: the filter of lines 113-114 parses every date before
\* get_feed yields anything, the exception leaves main.
feed_parse_error ==
    /\ pc = "feed"
    /\ fi <= Len(config)
    /\ state.dupecheck.kind = "dict"
    /\ LET url == config[fi].url
           wm  == Watermark(state, url)
       IN  \E doc \in FeedDocsBefore(url), t \in clock..Min2(clock + 1, MaxTime) :
                /\ clock' = t
                /\ run' = [run EXCEPT !.begun = Append(@, fi),
                             !.left = Len(get_feed(doc, wm, DateTime(t, 0))),
                             !.failure = "parse", !.failed = fi]
    /\ exit' = "error"
    /\ ProcessGone
    /\ UNCHANGED <<config, file, runs, args, posted, uploads, file0, seen, lost,
                   ledgerVars, renderVars>>

\* Line 64 when state['dupecheck'] is a list (after line 105 ran for an
\* earlier feed): indexing it with the URL raises TypeError.
feed_begin_error ==
    /\ pc = "feed"
    /\ fi <= Len(config)
    /\ state.dupecheck.kind = "list"
    /\ exit' = "error"
    /\ ProcessGone
    /\ UNCHANGED <<config, file, clock, runs, args, posted, uploads, file0,
                   seen, run, lost, ledgerVars, renderVars>>

\* A ledger lookup that never hits.
IsDupe_never(entry) == FALSE

\* Lines 78-82: the entry is a duplicate by the dedupe field.
IsDupe(entry) == args.dedupe_field # "" /\ InList(entry[args.dedupe_field], dupes)

\* Lines 68-82 for an entry that is not posted: a dry run prints it, a
\* duplicate is skipped.
entry_skip ==
    /\ pc = "entry"
    /\ entries # <<>>
    /\ LET entry == Head(entries)
       IN  /\ args.dry_run \/ IsDupe(entry)
           /\ newest_post' = max(newest_post, entry.updated)
    /\ entries' = Tail(entries)
    /\ run' = run
    /\ UNCHANGED <<config, file, clock, runs, pc, exit, args, state, fi, dupes,
                   last_update, now, posted, uploads, file0, fetched, seen,
                   lost, ledgerVars, renderVars>>

\* Recorded as it would be if line 83 ran whatever the dedupe field is.
Recorded_always(entry) == update_dupes(dupes, entry.link)

\* The ledger after lines 78-83 for an entry that is not a duplicate.
Recorded(entry) ==
    IF args.dedupe_field # "" THEN update_dupes(dupes, entry[args.dedupe_field])
    ELSE dupes

\* The media_post calls of lines 86-90 for an entry with that many images.
MediaCalls(feed, images) ==
    IF feed.include_images /\ images > 0 THEN Min2(images, ImageCap) ELSE 0

\* History: c media_post calls made for an entry of the feed at index i.
Media(i, entry, c) == [k \in 1..c |-> [feed |-> i, n |-> entry.n]]

\* Lines 68-101 for an entry that is posted.
entry_post ==
    /\ pc = "entry"
    /\ entries # <<>>
    /\ LET entry == Head(entries)
           url   == config[fi].url
       IN  /\ ~args.dry_run
           /\ ~IsDupe(entry)
           /\ newest_post' = max(newest_post, entry.updated)
           /\ dupes' = Recorded(entry)
           /\ state' = [state EXCEPT !.dupecheck.dict[url] = Recorded(entry)]
           /\ \E images \in ImageCounts :
                uploads' = uploads \o Media(fi, entry, MediaCalls(config[fi], images))
           /\ posted' = Append(posted, [feed |-> fi, n |-> entry.n,
                                        updated |-> entry.updated.utc,
                                        link |-> entry.link,
                                        since |-> last_update.utc,
                                        now |-> now.utc])
    /\ entries' = Tail(entries)
    /\ run' = run
    /\ UNCHANGED <<config, file, clock, runs, pc, exit, args, fi, last_update,
                   now, file0, fetched, seen, lost, ledgerVars, renderVars>>

\* History: what identifies a posted entry from one invocation to the next.
EntryId(i, post) == [url |-> config[i].url, updated |-> post.updated,
                     link |-> post.link]

\* History: the entries posted so far in this invocation for the feed at i.
PostedIn(i) == {EntryId(i, posted[k]) : k \in {j \in 1..Len(posted) : posted[j].feed = i}}

\* Lines 68-96 when requests.get, media_post or status_post raises: the
\* exception leaves main.  The entry has been recorded in the ledger in
\* memory; nothing is saved.
entry_error ==
    /\ pc = "entry"
    /\ entries # <<>>
    /\ LET entry == Head(entries)
       IN  /\ ~args.dry_run
           /\ ~IsDupe(entry)
           /\ \E images \in ImageCounts :
                \E done \in 0..MediaCalls(config[fi], images) :
                    /\ uploads' = uploads \o Media(fi, entry, done)
                    /\ run' = [run EXCEPT
                          !.failure = IF done < MediaCalls(config[fi], images)
                                      THEN "image" ELSE "post",
                          !.failed = fi,
                          !.entry = entry.n,
                          !.left = Len(entries) - 1]
           /\ lost' = IF lost.on /\ args.dedupe_field # ""
                      THEN [lost EXCEPT !.ids = @ \cup PostedIn(fi)]
                      ELSE lost
    /\ exit' = "error"
    /\ ProcessGone
    /\ UNCHANGED <<config, file, clock, runs, args, posted, file0, seen,
                   ledgerVars, renderVars>>

\* The state dictionary after lines 104-105.
Committed(st, url, wm, d) ==
    [st EXCEPT !.updated[url] = wm,
               !.dupecheck = [kind |-> "list", dict |-> EmptyLedgers, list |-> d]]

\* The dry-run test of line 103 left out.
ShouldSave_always == TRUE

\* Line 103: if not args.dry_run.
ShouldSave == ~args.dry_run

\* Lines 103-106: the feed's entries are exhausted; unless this is a dry run
\* the watermark and the ledger go into the state dictionary and the file.
feed_commit ==
    /\ pc = "entry"
    /\ entries = <<>>
    /\ LET url == config[fi].url
       IN  IF ~ShouldSave
           THEN UNCHANGED <<state, file, seen>>
           ELSE /\ state' = Committed(state, url, newest_post, dupes)
                /\ file' = save_state(Committed(state, url, newest_post, dupes))
                /\ seen' = [seen EXCEPT ![url] =
                              [committed |-> TRUE,
                               max |-> Max2(@.max, fetched.max),
                               maxPast |-> Max2(@.maxPast, fetched.maxPast),
                               ledger |-> dupes]]
    /\ run' = [run EXCEPT
                  !.committed = IF ShouldSave THEN Append(@, fi) ELSE @,
                  !.failure = "none", !.failed = 0]
    /\ fi' = fi + 1
    /\ pc' = "feed"
    /\ UNCHANGED <<config, clock, runs, exit, args, newest_post, dupes, entries,
                   last_update, now, posted, uploads, file0, fetched, lost,
                   ledgerVars, renderVars>>

\* The for loop of line 62 is exhausted: main returns.
main_end ==
    /\ pc = "feed"
    /\ fi > Len(config)
    /\ exit' = "ok"
    /\ ProcessGone
    /\ UNCHANGED <<config, file, clock, runs, args, posted, uploads, file0,
                   seen, run, lost, ledgerVars, renderVars>>

Next ==
    \/ \E dry \in BOOLEAN, field \in DedupeFields : main_start(dry, field)
    \/ \E dry \in BOOLEAN, field \in DedupeFields : main_start_error(dry, field)
    \/ feed_begin
    \/ feed_fetch_failed
    \/ feed_fetch_error
    \/ feed_parse_error
    \/ feed_begin_error
    \/ entry_skip
    \/ entry_post
    \/ entry_error
    \/ feed_commit
    \/ main_end

Spec == Init /\ [][Next]_vars

\* The same program, with the history of the posts of interrupted passes.
InitLost ==
    /\ config \in Configs
    /\ file = NoFile
    /\ clock = 1
    /\ runs = 0
    /\ pc = "idle"
    /\ exit = "none"
    /\ args = NoArgs
    /\ state = DefaultState
    /\ fi = 0
    /\ newest_post = DefaultUpdated
    /\ dupes = <<>>
    /\ entries = <<>>
    /\ last_update = DefaultUpdated
    /\ now = DefaultUpdated
    /\ posted = <<>>
    /\ uploads = <<>>
    /\ file0 = file
    /\ fetched = NoFetch
    /\ seen = NoSeen
    /\ run = NoRun
    /\ lost = [NoLost EXCEPT !.on = TRUE]
    /\ ledger = <<>>
    /\ recorded = <<>>
    /\ rendered = <<>>
    /\ entry_text = <<>>

SpecLost == InitLost /\ [][Next]_vars

\* ------------------------------------------------- the ledger specification
\* update_dupes applied to a list that starts empty.
InitLedger ==
    /\ config = <<FeedConfig("u1", FALSE)>>
    /\ file = NoFile
    /\ clock = 1
    /\ runs = 0
    /\ pc = "idle"
    /\ exit = "none"
    /\ args = NoArgs
    /\ state = DefaultState
    /\ fi = 0
    /\ newest_post = DefaultUpdated
    /\ dupes = <<>>
    /\ entries = <<>>
    /\ last_update = DefaultUpdated
    /\ now = DefaultUpdated
    /\ posted = <<>>
    /\ uploads = <<>>
    /\ file0 = NoFile
    /\ fetched = NoFetch
    /\ seen = NoSeen
    /\ run = NoRun
    /\ lost = NoLost
    /\ ledger = <<>>
    /\ recorded = <<>>
    /\ rendered = <<>>
    /\ entry_text = <<>>

Repeats == Len(recorded) - Cardinality({recorded[k] : k \in 1..Len(recorded)})

\* update_dupes(ledger, v) with a value never recorded before.
record_new ==
    /\ Len(recorded) < MaxRecords
    /\ LET v == Len(recorded) + 1 - Repeats
       IN  /\ ledger' = update_dupes(ledger, v)
           /\ recorded' = Append(recorded, v)
    /\ UNCHANGED <<progVars, histVars, renderVars>>

\* update_dupes(ledger, v) with the value recorded first, once more.
record_again ==
    /\ Len(recorded) < MaxRecords
    /\ Repeats < MaxRepeats
    /\ recorded # <<>>
    /\ ledger' = update_dupes(ledger, recorded[1])
    /\ recorded' = Append(recorded, recorded[1])
    /\ UNCHANGED <<progVars, histVars, renderVars>>

NextLedger == record_new \/ record_again

SpecLedger == InitLedger /\ [][NextLedger]_vars

\* update_dupes applied to a list that starts with up to 51 values.
InitLedgerFrom ==
    /\ config = <<FeedConfig("u1", FALSE)>>
    /\ file = NoFile
    /\ clock = 1
    /\ runs = 0
    /\ pc = "idle"
    /\ exit = "none"
    /\ args = NoArgs
    /\ state = DefaultState
    /\ fi = 0
    /\ newest_post = DefaultUpdated
    /\ dupes = <<>>
    /\ entries = <<>>
    /\ last_update = DefaultUpdated
    /\ now = DefaultUpdated
    /\ posted = <<>>
    /\ uploads = <<>>
    /\ file0 = NoFile
    /\ fetched = NoFetch
    /\ seen = NoSeen
    /\ run = NoRun
    /\ lost = NoLost
    /\ ledger \in {[k \in 1..m |-> k] : m \in 0..(LedgerLimit + 1)}
    /\ recorded = ledger
    /\ rendered = <<>>
    /\ entry_text = <<>>

SpecLedgerFrom == InitLedgerFrom /\ [][NextLedger]_vars

\* ------------------------------------------------- the render specification
\* The slice that cuts one character too late.
Slice_off_by_one(text) == SubSeq(text, 1, Min2(Len(text), TextLimit + 1))

\* Line 69: text[:499].
Slice(text) == SubSeq(text, 1, Min2(Len(text), TextLimit))

\* The character at a position of a rendered text.
CharAt(k) == k % 7

InitRender == InitLedger

\* Line 69 for an entry whose template renders one character longer than the
\* one before.
render_entry_text ==
    /\ Len(rendered) < MaxText
    /\ rendered' = Append(rendered, CharAt(Len(rendered) + 1))
    /\ entry_text' = Slice(Append(rendered, CharAt(Len(rendered) + 1)))
    /\ UNCHANGED <<progVars, histVars, ledgerVars>>

NextRender == render_entry_text

SpecRender == InitRender /\ [][NextRender]_vars

\* =================================================================== claims
Last(q) == q[Len(q)]
Distinct(q) == \A j, k \in 1..Len(q) : j # k => q[j] # q[k]

\* A feed pass is under way or has just ended in line 103-106; PassFeed is
\* the index of its feed, PassUrl the feed's URL.
InPass   == pc = "entry" \/ (pc = "feed" /\ fi > 1)
PassFeed == IF pc = "entry" THEN fi ELSE fi - 1
PassUrl  == config[PassFeed].url
PassDone == pc = "feed" /\ fi > 1

\* C1: the watermark the state file holds for a feed never decreases, whatever
\* step the program takes (dry or not, completing or aborting).
C1_WatermarkNeverDecreases ==
    [][\A u \in Urls :
          StoredWatermark(file', u).utc >= StoredWatermark(file, u).utc]_vars

\* C1 witness: a second invocation has committed a watermark above the one
\* the first invocation had stored.
C1_Witness ==
    /\ PassDone
    /\ runs = 2
    /\ StoredWatermark(file0, PassUrl).utc > MinInstant
    /\ StoredWatermark(file, PassUrl).utc > StoredWatermark(file0, PassUrl).utc

C4_NoFutureEntry ==
    /\ \A k \in 1..Len(entries) : entries[k].updated.utc <= now.utc
    /\ \A k \in 1..Len(posted) : posted[k].updated <= posted[k].now

\* C4 witness: with the watermark at the minimum instant, the document held
\* an entry dated after now and an earlier entry has been posted.
C4_Witness ==
    /\ pc = "entry"
    /\ last_update.utc = MinInstant
    /\ fetched.max > now.utc
    /\ posted # <<>>

\* C5: the posts of one invocation for one feed are of entries dated strictly
\* after the watermark read for the feed, in ascending order of date, in
\* document order among equal dates, each entry at most once.
C5_PostedInOrder ==
    /\ \A k \in 1..Len(posted) : posted[k].updated > posted[k].since
    /\ \A j, k \in 1..Len(posted) :
          (j < k /\ posted[j].feed = posted[k].feed) =>
              /\ posted[j].n # posted[k].n
              /\ posted[j].updated <= posted[k].updated
              /\ posted[j].updated = posted[k].updated => posted[j].n < posted[k].n

\* C5 witness: two entries stood in the document latest first and have been
\* posted earliest first.
C5_Witness ==
    /\ Len(posted) = 2
    /\ posted[1].feed = posted[2].feed
    /\ posted[1].n > posted[2].n
    /\ posted[1].updated < posted[2].updated

\* C6 as claimed: once a feed has been committed, its stored watermark is the
\* latest date among all entries fetched for it in the committed passes.
C6_WatermarkIsMaxFetched ==
    \A u \in Urls :
        seen[u].committed => StoredWatermark(file, u).utc = seen[u].max

\* C6 as amended: once a feed has been committed, its stored watermark is the
\* latest date among the entries fetched for it in the committed passes that
\* were not dated after the now of their fetch (the minimum instant if there
\* was none).
C6_WatermarkIsMaxNotFuture ==
    \A u \in Urls :
        seen[u].committed => StoredWatermark(file, u).utc = seen[u].maxPast

\* C6 witness: a committed feed whose documents held a postable entry and an
\* entry dated after it that was still in the future.
C6_Witness ==
    /\ seen["u1"].committed
    /\ seen["u1"].maxPast > MinInstant
    /\ seen["u1"].max > seen["u1"].maxPast

\* C7: when the state file already holds a committed watermark for a feed and
\* the fetched document has no entry dated after it, the pass makes no
\* status_post and no media_post call and the stored watermark stays as it is.
C7_RerunIdempotent ==
    (InPass /\ PassUrl \in file0.ukeys /\ ~fetched.offered) =>
        /\ \A k \in 1..Len(posted) : posted[k].feed # PassFeed
        /\ \A k \in 1..Len(uploads) : uploads[k].feed # PassFeed
        /\ file.ukeys = file0.ukeys
        /\ file.updated[PassUrl] = file0.updated[PassUrl]

\* C7 witness: a later, non-dry pass over a committed feed has ended; its
\* document was not empty and held nothing dated after the watermark.
C7_Witness ==
    /\ PassDone
    /\ ~args.dry_run
    /\ PassUrl \in file0.ukeys
    /\ fetched.max > MinInstant
    /\ ~fetched.offered

\* C8, one entry: in a non-dry run with a dedupe field, an entry whose value is
\* in the ledger is not posted and leaves the ledger as it is while the
\* watermark candidate reaches its date; an entry whose value is not in the
\* ledger is recorded and, unless the post raises, posted.
C8_EntryStep ==
    (pc = "entry" /\ entries # <<>> /\ ~args.dry_run /\ args.dedupe_field # "") =>
        LET e == Head(entries)
        IN  IF InList(e.link, dupes)
            THEN /\ posted' = posted
                 /\ uploads' = uploads
                 /\ dupes' = dupes
                 /\ state'.dupecheck = state.dupecheck
                 /\ newest_post'.utc >= e.updated.utc
                 /\ entries' = Tail(entries)
            ELSE pc' = "entry" =>
                 /\ dupes' = Append(dupes, e.link)
                 /\ Len(posted') = Len(posted) + 1
                 /\ Last(posted').n = e.n
                 /\ Last(posted').link = e.link
                 /\ newest_post'.utc >= e.updated.utc

\* C8, one pass: of the entries of a pass that share a dedupe value one only
\* is posted, and the committed watermark is the latest date among all the
\* entries that passed the filters, posted or skipped.
C8_PassDone ==
    (PassDone /\ ~args.dry_run /\ args.dedupe_field # "") =>
        /\ \A j, k \in 1..Len(posted) :
              (j < k /\ posted[j].feed = posted[k].feed) =>
                  posted[j].link # posted[k].link
        /\ StoredWatermark(file, PassUrl).utc =
              Max2(StoredWatermark(file0, PassUrl).utc, fetched.maxPast)

\* C8: with a dedupe field, in a non-dry run, a duplicate is skipped without
\* touching the ledger but still advances the watermark; a new value is
\* recorded and posted.
C8_DedupeSkipsAndAdvances == [][C8_EntryStep]_vars /\ []C8_PassDone

\* C8 witness: a committed pass with a dedupe field made one post, and the
\* committed watermark is later than the posted entry: a later entry with
\* the same value was skipped.
C8_Witness ==
    /\ PassDone
    /\ ~args.dry_run
    /\ args.dedupe_field # ""
    /\ Len(posted) = 1
    /\ StoredWatermark(file, PassUrl).utc > posted[1].updated

\* C9: a dry run makes no status_post and no media_post call and leaves the
\* state file exactly as it found it.
C9_DryRunNoEffect ==
    args.dry_run => (posted = <<>> /\ uploads = <<>> /\ file = file0)

\* C9 witness: a dry run over an existing state file has gone through an
\* entry that a non-dry run would have posted.
C9_Witness ==
    /\ args.dry_run
    /\ pc = "entry"
    /\ file.exists
    /\ newest_post.utc > last_update.utc

\* The ledger read_state finds for a feed in a state file.
StoredLedger(f, u) == read_state(f).dupecheck.dict[u]

\* C10: after a non-dry pass has saved the state, read_state succeeds on the
\* file and finds the watermarks and the ledger that main held in memory.
C10_StateRoundTrips ==
    (PassDone /\ ~args.dry_run) =>
        /\ read_state_ok(file)
        /\ \A u \in Urls : StoredWatermark(file, u) = state.updated[u]
        /\ StoredLedger(file, PassUrl) = dupes

\* C13: the text handed to status_post is the rendered template itself when
\* that has at most 499 characters and its first 499 characters when it has
\* more; it never has more than 499 characters.
C13_TextCutAt499 ==
    /\ Len(rendered) <= TextLimit => entry_text = rendered
    /\ Len(rendered) > TextLimit => entry_text = SubSeq(rendered, 1, TextLimit)
    /\ Len(entry_text) <= TextLimit

\* C13 witness: a rendered text of 501 characters has been cut to 499.
C13_Witness == Len(rendered) = TextLimit + 2 /\ Len(entry_text) = TextLimit

\* C20, one call: update_dupes takes away at most one value, the one at index
\* 0, and puts the new value last.
C20_Call ==
    LET front == SubSeq(ledger', 1, Len(ledger') - 1)
    IN  /\ ledger' # <<>>
        /\ Last(ledger') = Last(recorded')
        /\ front = ledger \/ (ledger # <<>> /\ front = Tail(ledger))

\* C20: starting from a ledger of at most 51 values, the ledger never holds
\* more than 51 values, and each update_dupes call removes at most the value
\* at index 0 and appends the new value last.
C20_LedgerStep == [](Len(ledger) <= LedgerLimit + 1) /\ [][C20_Call]_vars

\* C20 witness: a ledger that started with 51 values has had its first two
\* values removed by two calls.
C20_Witness ==
    /\ Len(recorded) = LedgerLimit + 3
    /\ Len(ledger) = LedgerLimit + 1
    /\ ledger[1] = recorded[3]
    /\ Last(ledger) = Last(recorded)

\* History: the posts made in this invocation for the feed at index i.
PostsOf(i) == {k \in 1..Len(posted) : posted[k].feed = i}

\* The invocation has ended (or none has begun).
RunEnded == pc = "idle" /\ runs > 0

\* C11: when fetching, parsing or publishing has failed for one feed, at the
\* end of the run every other configured feed has been fetched and processed
\* and, in a non-dry run, committed.
C11_OtherFeedsProcessed ==
    (RunEnded /\ run.failed # 0) =>
        \A i \in (1..Len(config)) \ {run.failed} :
            /\ InList(i, run.begun)
            /\ ~args.dry_run => InList(i, run.committed)

\* C12: a non-dry run over two or more feeds in which nothing failed to be
\* fetched, published or stored (the state file was read, and every feed that
\* was committed had delivered entries and published them) ends normally with
\* every configured feed committed, in configured order.
C12_AllFeedsCommitted ==
    (/\ RunEnded
     /\ ~args.dry_run
     /\ Len(config) >= 2
     /\ run.begun # <<>>
     /\ run.failure = "none"
     /\ \A k \in 1..Len(run.committed) : PostsOf(run.committed[k]) # {})
    => /\ exit = "ok"
       /\ run.committed = [i \in 1..Len(config) |-> i]

\* C14: an entry that was published in a pass of an earlier run, which an
\* exception ended after a dedupe value had been recorded, is not published
\* again by the run under way.
C14_NoEntryPostedTwice ==
    pc # "idle" =>
        \A k \in 1..Len(posted) : EntryId(posted[k].feed, posted[k]) \notin lost.ids

\* C15: when an image fetch or upload has failed for an entry, the entry has
\* not been posted and no entry that passed the filters of that feed is left
\* without having been processed.
C15_ImageFailureSparesTheRest ==
    (RunEnded /\ run.failure = "image") =>
        /\ \A k \in PostsOf(run.failed) : posted[k].n # run.entry
        /\ run.left = 0

\* C16: in a pass over a feed for which an earlier non-dry run was committed,
\* run with a dedupe field, every value the ledger held at that commit is in
\* the ledger of the pass (the ledgers here are too short for the bound to
\* evict anything).
C16_LedgerPersists ==
    (pc = "entry" /\ args.dedupe_field # "" /\ seen[config[fi].url].committed) =>
        \A k \in 1..Len(seen[config[fi].url].ledger) :
            InList(seen[config[fi].url].ledger[k], dupes)

\* C17: when the fetch of a feed has failed, the commit of that pass leaves
\* the watermark and the ledger that the state file holds for the feed as
\* they were; when the fetch or the parsing has raised, they are what they
\* were when the run began.
C17_Commit ==
    (pc = "entry" /\ run.failure = "fetch" /\ pc' = "feed") =>
        /\ StoredWatermark(file', config[fi].url) = StoredWatermark(file, config[fi].url)
        /\ StoredLedger(file', config[fi].url) = StoredLedger(file, config[fi].url)

C17_Raised ==
    (RunEnded /\ run.failure \in {"fetch", "parse"}) =>
        /\ StoredWatermark(file, config[run.failed].url)
             = StoredWatermark(file0, config[run.failed].url)
        /\ StoredLedger(file, config[run.failed].url)
             = StoredLedger(file0, config[run.failed].url)

C18_EarlierEntriesProcessed ==
    (RunEnded /\ run.failure = "parse") => run.left = 0

\* C18: an entry with a missing or unparsable timestamp ends the run with an
\* error before any entry of that feed is processed: none of them is
\* published in this run, the feed is not committed, and the watermark the
\* state file holds for it is what it was when the run began.
C18_BadTimestampEndsRun ==
    run.failure = "parse" =>
        /\ pc = "idle"
        /\ exit = "error"
        /\ PostsOf(run.failed) = {}
        /\ ~InList(run.failed, run.committed)
        /\ StoredWatermark(file, config[run.failed].url)
             = StoredWatermark(file0, config[run.failed].url)

\* A non-dry run has ended on a bad timestamp in a document that held entries
\* newer than the watermark.
C18_Witness ==
    /\ RunEnded
    /\ run.failure = "parse"
    /\ ~args.dry_run
    /\ run.left > 0

\* C19: with no dedupe field, handling an entry leaves the ledger as it is,
\* in memory and in the state dictionary, and in a non-dry run the entry is
\* published unless an exception ends the run.
C19_EntryStep ==
    (pc = "entry" /\ entries # <<>> /\ args.dedupe_field = "" /\ pc' = "entry") =>
        /\ dupes' = dupes
        /\ state'.dupecheck = state.dupecheck
        /\ entries' = Tail(entries)
        /\ ~args.dry_run =>
              /\ Len(posted') = Len(posted) + 1
              /\ Last(posted').feed = fi
              /\ Last(posted').n = Head(entries).n
              /\ Last(posted').link = Head(entries).link

====
